---- MODULE Spec2Model ----
(***************************************************************************)
(* A model of three parts of lapin:                                        *)
(*   - the internal RPC command queue (src/src/internal_rpc.rs),           *)
(*   - the frame codec and the futures transport                           *)
(*     (src/futures/src/transport.rs),                                     *)
(*   - the async-io reactor adapter (src/async-lapin/src/lib.rs).          *)
(* Each part has a specification of its own over the same variables; the   *)
(* variables of the other parts stay at their idle values.                 *)
(***************************************************************************)
EXTENDS Integers, Sequences, FiniteSets, TLC

VARIABLES
  \* ---- InternalRPC / InternalRPCHandle ----
  rpc,            \* the crossbeam channel: commands sent and not yet received
  receiverAlive,  \* FALSE once the IoLoop (the Receiver) has been dropped
  handed,         \* history: number of commands handed to InternalRPCHandle::send
  resolvers,      \* history: ids of the handed commands that carry a PromiseResolver
  sender,         \* ids of the commands whose send() is between lines 117 and 118,
                  \* one per producer thread in send()
  wake,           \* SocketStateHandle: a wake is pending
  wakes,          \* history: number of waker.wake() calls
  wokenAfter,     \* history: ids of queued commands that had a wake() after their enqueue
  channels,       \* ids present in the Channels table
  connState,      \* connection status kept by Channels
  tasks,          \* futures registered with the executor and not finished; id is
                  \* the command the future was registered for and, once the task
                  \* is "waking", the SetConnectionError command it has sent
  swears,         \* per command id: number of resolver.swear() calls
  ran,            \* history: ids of the commands run(), in order
  pollPc,         \* "idle" or "polling": position of InternalRPC::poll
  pollSeen,       \* ids in the queue when the current/last poll began and still in it
  pollTook,       \* number of commands in the queue when the current/last poll began
  pollResult,     \* result of the last poll: "none", "ok", "err"
  \* ---- AMQPCodec ----
  cPc,            \* "off", "start", "encoded", "failed", "fed", "decoded"
  cFrame,         \* the frame handed to encode
  cBuf,           \* the BytesMut handed to encode
  cEnc,           \* what encode returned, and the generator's reports
  rBuf,           \* the BytesMut handed to decode (bytes read from the socket)
  cFed,           \* number of bytes of the encoded frame appended to rBuf so far
  rBefore,        \* rBuf as it was when decode was last called
  cDec,           \* what decode last returned, and how many calls returned None
  \* ---- AMQPTransport, its Connection and the socket ----
  phase,          \* "off", "new", "connecting", "ready", "failed", "panicked"
  held,           \* AMQPTransportConnector.transport is Some
  conn,           \* Connection: state, handshake step, queue of frames to send
  wbuf,           \* the bytes in the write buffer of upstream (Framed)
  room,           \* bytes the socket accepts before WouldBlock; -1: any number
  sent,           \* every byte the socket has accepted, in order
  bkRead,         \* how many of them the broker has read
  bk,             \* the broker's place in the handshake
  inbound,        \* frames the broker has sent that upstream has not yielded yet
  eof,            \* the broker has closed its end
  broken,         \* the socket fails every read and write
  prompt,         \* the broker's replies arrive before the client's next read
  popped,         \* frames next_frame has returned, in order
  yielded,        \* frames upstream.poll has returned, in order
  handled,        \* frames handle_frame was called with, in order
  published,      \* number of publishes so far
  delivered,      \* number of frames the broker has sent of its own accord
  polled,         \* what the connector's last poll returned, and whether the
                  \* upstream had yielded Ready(None) to it
  faulted,        \* handle_frames has received an error from the upstream
  \* ---- AsyncIoReactor and its handles ----
  rSlot,          \* Inner.slot: the next slot id
  rSlots,         \* Inner.slots: slot id -> the socket registered under it
  rLock,          \* the thread holding the Mutex around Inner, or "none"
  rCall,          \* per thread: where it is in register, poll_read or poll_write
  rCalls,         \* the poll_read / poll_write calls that have returned
  rTasks,         \* the tasks the executor was given, with the events each sent
  rRegs,          \* number of register calls made so far
  rReturned,      \* the slot ids register has returned, in order
  hb              \* the task of start_heartbeat

rpcVars == <<rpc, receiverAlive, handed, resolvers, sender, wake, wakes, wokenAfter,
             channels, connState, tasks, swears, ran, pollPc, pollSeen, pollTook,
             pollResult>>

codecVars == <<cPc, cFrame, cBuf, cEnc, rBuf, cFed, rBefore, cDec>>

trVars == <<phase, held, conn, wbuf, room, sent, bkRead, bk, inbound, eof, broken,
            prompt, popped, yielded, handled, published, delivered, polled, faulted>>

reVars == <<rSlot, rSlots, rLock, rCall, rCalls, rTasks, rRegs, rReturned, hb>>

vars == <<rpcVars, codecVars, trVars, reVars>>

\* What the actions of one part leave alone.
notRpc == <<codecVars, trVars, reVars>>

notCodec == <<rpcVars, trVars, reVars>>

notTransport == <<rpcVars, codecVars, reVars>>

notReactor == <<rpcVars, codecVars, trVars>>

(***************************************************************************)
(* Bounds of the model.                                                    *)
(***************************************************************************)
MaxCmds == 2

\* Length of the payload of the large Body frame, one that does not fit the 8192
\* bytes encode starts with.
BigPayload == 8190

\* The network hands decode the bytes of a frame in pieces of at most MaxPiece
\* bytes (or all that is left, or all but the last byte), MaxFeeds pieces at most.
MaxPiece == 2

MaxFeeds == 30

(***************************************************************************)
(* InternalRPC: the commands.                                              *)
(***************************************************************************)
Producers == {"p1", "p2"}

ChannelIds == {0, 1}

ResolverKinds == {"BasicAck", "BasicNack", "BasicReject"}

ChannelFutureKinds == {"CancelConsumer", "CloseChannel"}

Channel0Kinds == {"CloseConnection", "SendConnectionCloseOk"}

StateKinds == {"RemoveChannel", "SetConnectionClosing", "SetConnectionClosed",
               "SetConnectionError"}

UserChannels == ChannelIds \ {0}

\* enum InternalCommand: the commands a caller of the handle can build.
InternalCommand(id) ==
  [id : {id}, kind : ResolverKinds \cup ChannelFutureKinds, ch : UserChannels]
  \cup [id : {id}, kind : {"RemoveChannel"}, ch : ChannelIds]
  \cup [id : {id}, kind : Channel0Kinds \cup (StateKinds \ {"RemoveChannel"}), ch : {0}]

QueueIds == {rpc[i].id : i \in 1..Len(rpc)}

TaskIds == {t.id : t \in tasks}

Waking == {t \in tasks : t.st = "waking"}

\* SocketStateHandle::wake, as called by send(): the wake is a flag the loop
\* consumes; every command in the queue now has a wake issued after it.
WakeSocket ==
  /\ wake' = TRUE
  /\ wakes' = wakes + 1
  /\ wokenAfter' = wokenAfter \cup QueueIds

\* send(), line 117: sender.send(command); the result is discarded, so a
\* command sent after the Receiver was dropped is dropped with its resolver.
Enqueue(command) ==
  /\ handed' = handed + 1
  /\ resolvers' = IF command.kind \in ResolverKinds THEN resolvers \cup {command.id}
                                                     ELSE resolvers
  /\ rpc' = IF receiverAlive THEN Append(rpc, command) ELSE rpc

SendEnqueue(command) ==
  /\ Cardinality(sender) < Cardinality(Producers)
  /\ handed < MaxCmds
  /\ command.id = handed + 1
  /\ Enqueue(command)
  /\ sender' = sender \cup {command.id}
  /\ UNCHANGED <<receiverAlive, wake, wakes, wokenAfter, channels, connState, tasks,
                 swears, ran, pollPc, pollSeen, pollTook, pollResult>>

\* send() without its line 118: the command is queued and nobody is woken.
SendWake_NoWake(id) ==
  /\ id \in sender
  /\ sender' = sender \ {id}
  /\ UNCHANGED <<rpc, receiverAlive, handed, resolvers, wake, wakes, wokenAfter, channels,
                 connState, tasks, swears, ran, pollPc, pollSeen, pollTook, pollResult>>

\* send(), line 118: self.waker.wake().
SendWake(id) ==
  /\ id \in sender
  /\ WakeSocket
  /\ sender' = sender \ {id}
  /\ UNCHANGED <<rpc, receiverAlive, handed, resolvers, channels, connState, tasks,
                 swears, ran, pollPc, pollSeen, pollTook, pollResult>>

\* The channel a command's future works on.
Target(command) == IF command.kind \in Channel0Kinds THEN 0 ELSE command.ch

Unchanged == [ok |-> TRUE, tasks |-> tasks, channels |-> channels,
              connState |-> connState]

\* Whether the state change of a channel operation (basic_ack, basic_nack,
\* basic_reject, do_basic_cancel, close, connection_close, connection_close_ok) is
\* made when the executor polls the returned future, rather than by the call that
\* run() makes on the consumer (lines 197, 206, 215, 224, 232, 239, 251). Channel is
\* not among the sources; section 5 of the specification: all connection and
\* channel state lives on the single logical worker.
ChannelOpRunsInTask == FALSE

\* executor.spawn(task): the executor takes the task, and from then on may poll
\* it at any moment on any of its threads ("running"), or refuses it and the task
\* (the future, and a resolver it owns) is dropped.
Spawn(command, withResolver, spawnOk) ==
  IF spawnOk
  THEN [Unchanged EXCEPT !.tasks = tasks \cup
          {[id |-> command.id, ch |-> Target(command), resolver |-> withResolver,
            touches |-> ChannelOpRunsInTask, st |-> "running"]}]
  ELSE [Unchanged EXCEPT !.ok = FALSE]

register_internal_future(command, spawnOk) == Spawn(command, FALSE, spawnOk)

register_internal_future_with_resolver(command, spawnOk) == Spawn(command, TRUE, spawnOk)

\* run with .unwrap_or(Err(..)) for .unwrap_or(Ok(())): a command for a channel
\* that is not in the table is an error.
run_AbsentIsError(command, spawnOk, chanOk) ==
  CASE command.kind \in ResolverKinds ->
         IF command.ch \in channels
         THEN register_internal_future_with_resolver(command, spawnOk)
         ELSE [Unchanged EXCEPT !.ok = FALSE]
    [] command.kind \in ChannelFutureKinds \cup Channel0Kinds ->
         IF Target(command) \in channels
         THEN register_internal_future(command, spawnOk)
         ELSE [Unchanged EXCEPT !.ok = FALSE]
    [] command.kind = "RemoveChannel" ->
         [Unchanged EXCEPT !.channels = channels \ {command.ch}, !.ok = chanOk]
    [] command.kind = "SetConnectionClosing" ->
         [Unchanged EXCEPT !.connState = "Closing"]
    [] command.kind = "SetConnectionClosed" ->
         [Unchanged EXCEPT !.connState = "Closed", !.ok = chanOk]
    [] command.kind = "SetConnectionError" ->
         [Unchanged EXCEPT !.connState = "Error", !.ok = chanOk]

\* InternalRPC::run: spawnOk is the executor's answer, chanOk the Result of the
\* Channels method called.
run(command, spawnOk, chanOk) ==
  CASE command.kind \in ResolverKinds ->
         IF command.ch \in channels
         THEN register_internal_future_with_resolver(command, spawnOk)
         ELSE Unchanged
    [] command.kind \in ChannelFutureKinds ->
         IF command.ch \in channels
         THEN register_internal_future(command, spawnOk)
         ELSE Unchanged
    [] command.kind \in Channel0Kinds ->
         IF 0 \in channels
         THEN register_internal_future(command, spawnOk)
         ELSE Unchanged
    [] command.kind = "RemoveChannel" ->
         [Unchanged EXCEPT !.channels = channels \ {command.ch}, !.ok = chanOk]
    [] command.kind = "SetConnectionClosing" ->
         [Unchanged EXCEPT !.connState = "Closing"]
    [] command.kind = "SetConnectionClosed" ->
         [Unchanged EXCEPT !.connState = "Closed", !.ok = chanOk]
    [] command.kind = "SetConnectionError" ->
         [Unchanged EXCEPT !.connState = "Error", !.ok = chanOk]

\* poll with the `?` of line 183 left out: the error of run() is dropped and the
\* loop goes on.
poll_next_IgnoresError(ok) == [pc |-> "polling", result |-> "none"]

\* poll with `if let` for `while let`: one command is run and poll returns.
poll_next_if_let(ok) ==
  IF ok THEN [pc |-> "idle", result |-> "ok"]
        ELSE [pc |-> "idle", result |-> "err"]

\* InternalRPC::poll, lines 182-184: after run() the loop goes on to the next
\* try_recv, or `?` returns the error at once.
poll_next(ok) ==
  IF ok THEN [pc |-> "polling", result |-> "none"]
        ELSE [pc |-> "idle", result |-> "err"]

\* The I/O loop, woken, calls InternalRPC::poll.
PollBegin ==
  /\ receiverAlive
  /\ pollPc = "idle"
  /\ wake
  /\ wake' = FALSE
  /\ pollPc' = "polling"
  /\ pollSeen' = QueueIds
  /\ pollTook' = Len(rpc)
  /\ pollResult' = "none"
  /\ UNCHANGED <<rpc, receiverAlive, handed, resolvers, sender, wakes, wokenAfter,
                 channels, connState, tasks, swears, ran>>

\* One iteration of poll's loop: try_recv yields a command and run() handles it.
PollStep ==
  /\ pollPc = "polling"
  /\ rpc # <<>>
  /\ \E spawnOk \in BOOLEAN, chanOk \in BOOLEAN :
       LET command == Head(rpc)
           r == run(command, spawnOk, chanOk)
           n == poll_next(r.ok)
       IN /\ rpc' = Tail(rpc)
          /\ wokenAfter' = wokenAfter \ {command.id}
          /\ pollSeen' = pollSeen \ {command.id}
          /\ ran' = Append(ran, command.id)
          /\ tasks' = r.tasks
          /\ channels' = r.channels
          /\ connState' = r.connState
          /\ pollPc' = n.pc
          /\ pollResult' = n.result
  /\ UNCHANGED <<receiverAlive, handed, resolvers, sender, wake, wakes, swears, pollTook>>

\* try_recv finds the queue empty: poll returns Ok(()).
PollEnd ==
  /\ pollPc = "polling"
  /\ rpc = <<>>
  /\ pollPc' = "idle"
  /\ pollResult' = "ok"
  /\ UNCHANGED <<rpc, receiverAlive, handed, resolvers, sender, wake, wakes, wokenAfter,
                 channels, connState, tasks, swears, ran, pollSeen, pollTook>>

\* register_internal_future whose task sets the connection error itself instead
\* of sending SetConnectionError to the queue.
TaskFinish_SetsErrorItself(t, resOk) ==
  /\ t \in tasks
  /\ t.st = "running"
  /\ tasks' = tasks \ {t}
  /\ swears' = IF t.resolver THEN [swears EXCEPT ![t.id] = @ + 1] ELSE swears
  /\ connState' = IF ~t.resolver /\ ~resOk THEN "Error" ELSE connState
  /\ UNCHANGED <<rpc, receiverAlive, handed, resolvers, sender, wake, wakes, wokenAfter,
                 channels, ran, pollPc, pollSeen, pollTook, pollResult>>

\* register_internal_future whose task drops the error of the future.
TaskFinish_DropsError(t, resOk) ==
  /\ t \in tasks
  /\ t.st = "running"
  /\ tasks' = tasks \ {t}
  /\ swears' = IF t.resolver THEN [swears EXCEPT ![t.id] = @ + 1] ELSE swears
  /\ UNCHANGED <<rpc, receiverAlive, handed, resolvers, sender, wake, wakes, wokenAfter,
                 channels, connState, ran, pollPc, pollSeen, pollTook, pollResult>>

\* f.await completes with res. With a resolver: resolver.swear(res) (line 140).
\* Without: an error is sent back as SetConnectionError (lines 127-129).
TaskFinish(t, resOk) ==
  /\ t \in tasks
  /\ t.st = "running"
  /\ IF t.resolver
     THEN /\ swears' = [swears EXCEPT ![t.id] = @ + 1]
          /\ tasks' = tasks \ {t}
          /\ UNCHANGED <<rpc, handed, resolvers>>
     ELSE IF resOk
     THEN /\ tasks' = tasks \ {t}
          /\ UNCHANGED <<rpc, handed, resolvers, swears>>
     ELSE /\ handed < MaxCmds
          /\ Enqueue([id |-> handed + 1, kind |-> "SetConnectionError", ch |-> 0])
          /\ tasks' = (tasks \ {t}) \cup {[t EXCEPT !.st = "waking", !.id = handed + 1]}
          /\ UNCHANGED swears
  /\ UNCHANGED <<receiverAlive, sender, wake, wakes, wokenAfter, channels, connState,
                 ran, pollPc, pollSeen, pollTook, pollResult>>

\* The wake of the task's set_connection_error (send(), line 118).
TaskWake(t) ==
  /\ t \in tasks
  /\ t.st = "waking"
  /\ WakeSocket
  /\ tasks' = tasks \ {t}
  /\ UNCHANGED <<rpc, receiverAlive, handed, resolvers, sender, channels, connState,
                 swears, ran, pollPc, pollSeen, pollTook, pollResult>>

\* The IoLoop exits and drops the InternalRPC: the Receiver is gone, and the
\* commands still in the channel are dropped with it.
LoopExit ==
  /\ receiverAlive
  /\ pollPc = "idle"
  /\ receiverAlive' = FALSE
  /\ rpc' = <<>>
  /\ wokenAfter' = {}
  /\ pollSeen' = {}
  /\ pollTook' = 0
  /\ pollResult' = "none"
  /\ UNCHANGED <<handed, resolvers, sender, wake, wakes, channels, connState, tasks,
                 swears, ran, pollPc>>

\* InternalRPC::new: an empty unbounded channel; any channel table.
RpcInit ==
  /\ rpc = <<>>
  /\ receiverAlive = TRUE
  /\ handed = 0
  /\ resolvers = {}
  /\ sender = {}
  /\ wake = FALSE
  /\ wakes = 0
  /\ wokenAfter = {}
  /\ channels \in SUBSET ChannelIds
  /\ connState = "Connected"
  /\ tasks = {}
  /\ swears = [i \in 1..MaxCmds |-> 0]
  /\ ran = <<>>
  /\ pollPc = "idle"
  /\ pollSeen = {}
  /\ pollTook = 0
  /\ pollResult = "none"

(***************************************************************************)
(* AMQPCodec: frames and bytes.                                            *)
(***************************************************************************)
Zeros(n) == [i \in 1..n |-> 0]

Min(a, b) == IF a < b THEN a ELSE b

\* n as k bytes, big endian.
RECURSIVE BE(_, _)
BE(n, k) == IF k = 0 THEN <<>> ELSE Append(BE(n \div 256, k - 1), n % 256)

\* The number that the bytes bs spell, big endian.
RECURSIVE UInt(_)
UInt(bs) ==
  IF bs = <<>> THEN 0 ELSE UInt(SubSeq(bs, 1, Len(bs) - 1)) * 256 + bs[Len(bs)]

RECURSIVE Flatten(_)
Flatten(ss) == IF ss = <<>> THEN <<>> ELSE Head(ss) \o Flatten(Tail(ss))

IsPrefix(a, b) == Len(a) <= Len(b) /\ SubSeq(b, 1, Len(a)) = a

\* basic::Properties: the property flags and the bytes of the properties present.
NoProperties == [flags |-> 0, fields |-> <<>>]

\* delivery_mode = 2: flag bit 12, one octet.
Persistent == [flags |-> 4096, fields |-> <<2>>]

NoFrame == [type |-> "None", channel |-> 0, class_id |-> 0, method_id |-> 0,
            args |-> <<>>, body_size |-> 0, properties |-> NoProperties,
            payload |-> <<>>]

ProtocolHeader == [NoFrame EXCEPT !.type = "ProtocolHeader"]

Heartbeat(channel) == [NoFrame EXCEPT !.type = "Heartbeat", !.channel = channel]

Method(channel, class_id, method_id, args) ==
  [NoFrame EXCEPT !.type = "Method", !.channel = channel, !.class_id = class_id,
                  !.method_id = method_id, !.args = args]

Header(channel, class_id, body_size, properties) ==
  [NoFrame EXCEPT !.type = "Header", !.channel = channel, !.class_id = class_id,
                  !.body_size = body_size, !.properties = properties]

Body(channel, payload) ==
  [NoFrame EXCEPT !.type = "Body", !.channel = channel, !.payload = payload]

\* The method classes of AMQP 0-9-1 (Connection, Channel, Exchange, Queue,
\* Basic, Confirm, Tx); a method of another class cannot be generated.
KnownClasses == {10, 20, 40, 50, 60, 85, 90}

FRAME_END == 206

\* The frames the codec is exercised with.
Frames ==
  { ProtocolHeader,
    Heartbeat(0),
    Method(0, 10, 11, <<>>),
    Method(1, 60, 40, <<0, 0, 1, 113>>),
    Method(1, 0, 0, <<>>),
    Header(1, 60, 5, NoProperties),
    Header(1, 60, 5, Persistent),
    Body(1, <<104, 101, 108, 108, 111>>),
    Body(1, <<>>),
    Body(2, [i \in 1..BigPayload |-> 170]) }

\* type:u8 | channel:u16 | length:u32 | payload | 0xCE, as the writes the
\* generator makes, each checked against the space left.
Framed(type, channel, payload) ==
  <<<<type>>, BE(channel, 2), BE(Len(Flatten(payload)), 4)>> \o payload
    \o <<<<FRAME_END>>>>

gen_protocol_header == <<<<65, 77, 81, 80, 0, 0, 9, 1>>>>

gen_heartbeat_frame == Framed(8, 0, <<>>)

gen_method_frame(channel, f) ==
  Framed(1, channel, <<BE(f.class_id, 2), BE(f.method_id, 2)>>
                        \o (IF f.args = <<>> THEN <<>> ELSE <<f.args>>))

gen_content_header_frame(channel_id, class_id, body_size) ==
  Framed(2, channel_id, <<BE(class_id, 2), BE(0, 2), BE(body_size, 8), BE(0, 2)>>)

gen_content_body_frame(channel_id, data) ==
  Framed(3, channel_id, IF data = <<>> THEN <<>> ELSE <<data>>)

\* encode, lines 53-69: the generator called for a frame, with its arguments.
GenWrites(f) ==
  CASE f.type = "ProtocolHeader" -> gen_protocol_header
    [] f.type = "Heartbeat" -> gen_heartbeat_frame
    [] f.type = "Method" -> gen_method_frame(f.channel, f)
    [] f.type = "Header" -> gen_content_header_frame(f.channel, f.class_id, f.body_size)
    [] f.type = "Body" -> gen_content_body_frame(f.channel, f.payload)

\* A generator error other than BufferTooSmall.
GenFails(f) == f.type = "Method" /\ f.class_id \notin KnownClasses

\* A BytesMut is [len, data]: its bytes are data followed by zeros up to len.
Bytes(b) == b.data \o Zeros(b.len - Len(b.data))

Buf(bytes) == [len |-> Len(bytes), data |-> bytes]

\* buf.extend(repeat(0).take(n))
Extend(b, n) ==
  IF Len(b.data) = b.len THEN [len |-> b.len + n, data |-> b.data]
  ELSE [b EXCEPT !.len = b.len + n]

\* buf.truncate(n)
Truncate(b, n) ==
  IF n >= b.len THEN b
  ELSE [len |-> n, data |-> SubSeq(b.data, 1, Min(n, Len(b.data)))]

\* buf[idx .. idx + Len(bs)] = bs, within the buffer's length.
WriteAt(b, idx, bs) ==
  LET d == IF Len(b.data) < idx THEN b.data \o Zeros(idx - Len(b.data)) ELSE b.data
  IN [b EXCEPT !.data = SubSeq(d, 1, idx) \o bs
                          \o SubSeq(d, idx + Len(bs) + 1, Len(d))]

\* The generator's run over (buf, idx): every write needs its bytes to fit;
\* the first that does not fit reports the length it needs.
RECURSIVE Gen(_, _, _)
Gen(b, writes, idx) ==
  IF writes = <<>> THEN [ok |-> TRUE, sz |-> idx, buf |-> b]
  ELSE IF idx + Len(Head(writes)) > b.len
  THEN [ok |-> FALSE, sz |-> idx + Len(Head(writes)), buf |-> b]
  ELSE Gen(WriteAt(b, idx, Head(writes)), Tail(writes), idx + Len(Head(writes)))

encode_done_NoTruncate(b, sz) == b

\* encode, line 73: buf.truncate(sz).
encode_done(b, sz) == Truncate(b, sz)

\* encode, line 81 with the operands of the subtraction exchanged.
encode_grow_Swapped(b, sz, length) ==
  IF length < sz THEN [len |-> -1, data |-> <<>>] ELSE Extend(b, length - sz)

\* encode, line 81: buf.extend(repeat(0).take(sz - length)); the subtraction is
\* of usize.
encode_grow(b, sz, length) ==
  IF sz < length THEN [len |-> -1, data |-> <<>>] ELSE Extend(b, sz - length)

\* encode, lines 52-90: the loop. grown lists, for every BufferTooSmall(sz), sz
\* and the buffer's length before and after the growth.
RECURSIVE encode_loop(_, _, _, _)
encode_loop(f, b, length, grown) ==
  IF GenFails(f)
  THEN [res |-> "InvalidData", buf |-> b, sz |-> 0, grown |-> grown]
  ELSE LET g == Gen(b, GenWrites(f), 0) IN
    IF g.ok
    THEN [res |-> "Ok", buf |-> encode_done(g.buf, g.sz), sz |-> g.sz, grown |-> grown]
    ELSE LET b2 == encode_grow(g.buf, g.sz, length) IN
      IF b2.len < 0
      THEN [res |-> "Overflow", buf |-> g.buf, sz |-> g.sz, grown |-> grown]
      ELSE encode_loop(f, b2, length,
             Append(grown, [sz |-> g.sz, before |-> g.buf.len, after |-> b2.len]))

INITIAL_LEN == 8192

\* AMQPCodec::encode
encode(f, b) ==
  LET length == b.len
      b1 == IF length < INITIAL_LEN THEN Extend(b, INITIAL_LEN - length) ELSE b
  IN encode_loop(f, b1, length, <<>>)

\* The frame parser of the format module, on the bytes of a buffer.
frame(bs) ==
  LET n == Len(bs)
      magic == Head(gen_protocol_header)
      Incomplete == [res |-> "Incomplete", consumed |-> 0, frame |-> NoFrame]
      Error == [res |-> "Error", consumed |-> 0, frame |-> NoFrame]
  IN
  IF n = 0 THEN Incomplete
  ELSE IF SubSeq(bs, 1, Min(n, 8)) = SubSeq(magic, 1, Min(n, 8))
  THEN IF n < 8 THEN Incomplete
       ELSE [res |-> "Done", consumed |-> 8, frame |-> ProtocolHeader]
  ELSE IF bs[1] \notin {1, 2, 3, 8} THEN Error
  ELSE IF n < 7 THEN Incomplete
  ELSE
    LET channel == UInt(SubSeq(bs, 2, 3))
        size == UInt(SubSeq(bs, 4, 7))
        payload == SubSeq(bs, 8, 7 + size)
        Done(f) == [res |-> "Done", consumed |-> size + 8, frame |-> f]
    IN
    IF n < size + 8 THEN Incomplete
    ELSE IF bs[size + 8] # FRAME_END THEN Error
    ELSE CASE bs[1] = 1 ->
                IF size < 4 THEN Error
                ELSE Done(Method(channel, UInt(SubSeq(payload, 1, 2)),
                                 UInt(SubSeq(payload, 3, 4)), SubSeq(payload, 5, size)))
           [] bs[1] = 2 ->
                IF size < 14 THEN Error
                ELSE Done(Header(channel, UInt(SubSeq(payload, 1, 2)),
                                 UInt(SubSeq(payload, 5, 12)),
                                 [flags |-> UInt(SubSeq(payload, 13, 14)),
                                  fields |-> SubSeq(payload, 15, size)]))
           [] bs[1] = 3 -> Done(Body(channel, payload))
           [] bs[1] = 8 -> IF size # 0 THEN Error ELSE Done(Heartbeat(channel))

\* decode, line 34: buf.split_to(consumed).
decode_consume(bs, consumed) == SubSeq(bs, consumed + 1, Len(bs))

decode_DropsPartial(bs) ==
  LET r == frame(bs) IN
  IF r.res = "Done"
  THEN [res |-> "Some", frame |-> r.frame, buf |-> decode_consume(bs, r.consumed)]
  ELSE [res |-> "None", frame |-> NoFrame, buf |-> <<>>]

\* AMQPCodec::decode
decode(bs) ==
  LET r == frame(bs) IN
  CASE r.res = "Incomplete" -> [res |-> "None", frame |-> NoFrame, buf |-> bs]
    [] r.res = "Error" -> [res |-> "Err", frame |-> NoFrame, buf |-> bs]
    [] r.res = "Done" ->
         [res |-> "Some", frame |-> r.frame, buf |-> decode_consume(bs, r.consumed)]

(***************************************************************************)
(* The codec at work: a frame is encoded into a buffer of any length, its  *)
(* bytes reach a decoder's buffer in pieces, and decode is called after    *)
(* every piece.                                                            *)
(***************************************************************************)
NoEnc == [res |-> "None", sz |-> 0, grown |-> <<>>]

NoDec == [res |-> "None", frame |-> NoFrame, nones |-> 0]

EmptyBuf == [len |-> 0, data |-> <<>>]

BigFrameLen == BigPayload + 8

\* The buffers encode is handed: empty, holding earlier bytes, just below, at
\* and above the initial length, and around the length of the large frame.
InitialBuffers ==
  { EmptyBuf, Buf(<<255, 255, 255>>) }
  \cup { [len |-> n, data |-> <<255, 255, 255>>] :
           n \in {INITIAL_LEN - 1, INITIAL_LEN, INITIAL_LEN + 1, BigFrameLen - 1,
                  BigFrameLen, BigFrameLen + 3} }

\* The internal RPC at rest, while another part is at work.
RpcOff ==
  /\ rpc = <<>>
  /\ receiverAlive = TRUE
  /\ handed = 0
  /\ resolvers = {}
  /\ sender = {}
  /\ wake = FALSE
  /\ wakes = 0
  /\ wokenAfter = {}
  /\ channels = {}
  /\ connState = "Connected"
  /\ tasks = {}
  /\ swears = [i \in 1..MaxCmds |-> 0]
  /\ ran = <<>>
  /\ pollPc = "idle"
  /\ pollSeen = {}
  /\ pollTook = 0
  /\ pollResult = "none"

NotPolled == [res |-> "None", eof |-> FALSE]

\* No transport yet.
TransportOff ==
  /\ phase = "off"
  /\ held = FALSE
  /\ conn = [state |-> "Initial", step |-> "None", queue |-> <<>>]
  /\ wbuf = <<>>
  /\ room = -1
  /\ sent = <<>>
  /\ bkRead = 0
  /\ bk = "listen"
  /\ inbound = <<>>
  /\ eof = FALSE
  /\ broken = FALSE
  /\ prompt = FALSE
  /\ popped = <<>>
  /\ yielded = <<>>
  /\ handled = <<>>
  /\ published = 0
  /\ delivered = 0
  /\ polled = NotPolled
  /\ faulted = FALSE

\* The threads that call into the reactor: the I/O loop, which owns it and
\* registers the sockets, and one holding a clone of its handle.
Callers == {"io", "other"}

IdleCall == [pc |-> "idle", kind |-> "none", slot |-> 0, stage |-> "none", by |-> "none", n |-> 0]

NoHeartbeat == [pc |-> "none", last |-> "none", polls |-> 0, sleeps |-> 0]

\* A reactor just built, unused.
ReactorOff ==
  /\ rSlot = 0
  /\ rSlots = <<>>
  /\ rLock = "none"
  /\ rCall = [t \in Callers |-> IdleCall]
  /\ rCalls = {}
  /\ rTasks = {}
  /\ rRegs = 0
  /\ rReturned = <<>>
  /\ hb = NoHeartbeat

CodecOff ==
  /\ cPc = "off"
  /\ cFrame = NoFrame
  /\ cBuf = EmptyBuf
  /\ cEnc = NoEnc
  /\ rBuf = <<>>
  /\ cFed = 0
  /\ rBefore = <<>>
  /\ cDec = NoDec

CodecInit ==
  /\ RpcOff
  /\ TransportOff
  /\ ReactorOff
  /\ cPc = "start"
  /\ cFrame \in Frames
  /\ cBuf \in InitialBuffers
  /\ cEnc = NoEnc
  /\ rBuf = <<>>
  /\ cFed = 0
  /\ rBefore = <<>>
  /\ cDec = NoDec

\* encode(cFrame, cBuf)
Encode ==
  /\ cPc = "start"
  /\ LET r == encode(cFrame, cBuf) IN
       /\ cBuf' = r.buf
       /\ cEnc' = [res |-> r.res, sz |-> r.sz, grown |-> r.grown]
       /\ cPc' = IF r.res = "Ok" THEN "encoded" ELSE "failed"
  /\ UNCHANGED <<cFrame, rBuf, cFed, rBefore, cDec>>

\* The sizes of the next piece: up to MaxPiece bytes, all that is left, or all
\* but the last byte.
Pieces == LET left == cBuf.len - cFed IN
  {k \in 1..Min(MaxPiece, left) : TRUE} \cup ({left, left - 1} \ {0})

\* The next k bytes of the encoded frame are read into the decoder's buffer.
Feed(k) ==
  /\ cPc \in {"encoded", "decoded"}
  /\ cFed < cBuf.len
  /\ cDec.res = "None"
  /\ Len(rBuf) < MaxFeeds
  /\ rBuf' = rBuf \o SubSeq(Bytes(cBuf), cFed + 1, cFed + k)
  /\ cFed' = cFed + k
  /\ cPc' = "fed"
  /\ UNCHANGED <<cFrame, cBuf, cEnc, rBefore, cDec>>

\* decode(rBuf)
Decode ==
  /\ cPc \in {"encoded", "fed"}
  /\ LET r == decode(rBuf) IN
       /\ rBefore' = rBuf
       /\ rBuf' = r.buf
       /\ cDec' = [res |-> r.res, frame |-> r.frame,
                   nones |-> Min(2, cDec.nones + (IF r.res = "None" THEN 1 ELSE 0))]
  /\ cPc' = "decoded"
  /\ UNCHANGED <<cFrame, cBuf, cEnc, cFed>>

CodecNext ==
  \/ Encode /\ UNCHANGED notCodec
  \/ \E k \in Pieces : Feed(k) /\ UNCHANGED notCodec
  \/ Decode /\ UNCHANGED notCodec

CodecSpec == CodecInit /\ [][CodecNext]_vars

(***************************************************************************)
(* AMQPTransport over a Framed upstream, with the Connection it drives and *)
(* a broker at the other end of the socket.                                *)
(***************************************************************************)
MaxPublish == 1

MaxDeliver == 1

\* A socket that is about to block accepts MaxPartial more bytes.
MaxPartial == 3

Start == Method(0, 10, 10, <<>>)

StartOk == Method(0, 10, 11, <<>>)

Tune == Method(0, 10, 30, <<>>)

TuneOk == Method(0, 10, 31, <<>>)

Open == Method(0, 10, 40, <<>>)

OpenOk == Method(0, 10, 41, <<>>)

BasicPublish == Method(1, 60, 40, <<>>)

BasicDeliver == Method(1, 60, 60, <<>>)

SmallBody == <<104, 105>>

BigBody == [i \in 1..BigPayload |-> 170]

\* The one element of a set of one. An operator below takes its argument as
\* the element x of {argument}, a value computed once, and returns
\* Only({result of x : x \in {argument}}).
Only(S) == CHOOSE x \in S : TRUE

\* The transport, its connection and the socket as one value, for the
\* handlers to pass along.
World ==
  [conn |-> conn, wbuf |-> wbuf, room |-> room, sent |-> sent, bkRead |-> bkRead,
   bk |-> bk, inbound |-> inbound, eof |-> eof, broken |-> broken,
   popped |-> popped, yielded |-> yielded, handled |-> handled,
   faulted |-> faulted]

SetWorld(w) ==
  /\ conn' = w.conn
  /\ wbuf' = w.wbuf
  /\ room' = w.room
  /\ sent' = w.sent
  /\ bkRead' = w.bkRead
  /\ bk' = w.bk
  /\ inbound' = w.inbound
  /\ eof' = w.eof
  /\ broken' = w.broken
  /\ popped' = w.popped
  /\ yielded' = w.yielded
  /\ handled' = w.handled
  /\ faulted' = w.faulted

\* The broker reads the frames that have arrived whole and answers as the
\* handshake prescribes; bytes it cannot parse, or a frame out of turn, make it
\* close the connection.
RECURSIVE BrokerReact(_)
BrokerReact(w0) ==
 Only({
    LET close == [w EXCEPT !.bk = "closed", !.eof = TRUE]
        read == [w EXCEPT !.bkRead = @ + r.consumed]
        f == r.frame
    IN
    IF w.bk = "closed" \/ r.res = "Incomplete" THEN w
    ELSE IF r.res = "Error" THEN close
    ELSE CASE w.bk = "listen" ->
                IF f = ProtocolHeader
                THEN BrokerReact([read EXCEPT !.bk = "started",
                                              !.inbound = Append(@, Start)])
                ELSE close
           [] w.bk = "started" ->
                IF f = StartOk
                THEN BrokerReact([read EXCEPT !.bk = "tuned",
                                              !.inbound = Append(@, Tune)])
                ELSE close
           [] w.bk = "tuned" ->
                IF f = TuneOk THEN BrokerReact([read EXCEPT !.bk = "tuneok"])
                ELSE close
           [] w.bk = "tuneok" ->
                IF f = Open
                THEN BrokerReact([read EXCEPT !.bk = "open",
                                              !.inbound = Append(@, OpenOk)])
                ELSE close
           [] w.bk = "open" -> BrokerReact(read)
  : w \in {w0}, r \in {frame(SubSeq(w0.sent, w0.bkRead + 1, Len(w0.sent)))} })

\* Connection::connect
conn_connect(w0) ==
 Only({
    [w EXCEPT !.conn = [state |-> "Connecting", step |-> "SentProtocolHeader",
                        queue |-> Append(w.conn.queue, ProtocolHeader)]]
  : w \in {w0} })

\* Connection::next_frame
next_frame(w0) ==
 Only({
    IF w.conn.queue = <<>> THEN [w |-> w, some |-> FALSE, frame |-> NoFrame]
    ELSE [w |-> [w EXCEPT !.conn.queue = Tail(@),
                          !.popped = Append(@, Head(w.conn.queue))],
          some |-> TRUE, frame |-> Head(w.conn.queue)]
  : w \in {w0} })

\* Connection::handle_frame
handle_frame(w0, f) ==
 Only({
    LET c == w.conn
        c2 == CASE c.state = "Connecting" /\ c.step = "SentProtocolHeader" ->
                     IF f = Start
                     THEN [c EXCEPT !.step = "SentStartOk", !.queue = Append(@, StartOk)]
                     ELSE [c EXCEPT !.state = "Error"]
                [] c.state = "Connecting" /\ c.step = "SentStartOk" ->
                     IF f = Tune
                     THEN [c EXCEPT !.step = "SentOpen", !.queue = @ \o <<TuneOk, Open>>]
                     ELSE [c EXCEPT !.state = "Error"]
                [] c.state = "Connecting" /\ c.step = "SentOpen" ->
                     IF f = OpenOk
                     THEN [c EXCEPT !.state = "Connected", !.step = "None"]
                     ELSE [c EXCEPT !.state = "Error"]
                [] OTHER -> c
    IN [w EXCEPT !.conn = c2, !.handled = Append(@, f)]
  : w \in {w0} })

\* upstream.poll_complete(): the write buffer is written to the socket until
\* it is empty or the socket would block.
poll_complete(w0) ==
 Only({
    LET n == IF w.room < 0 THEN Len(w.wbuf) ELSE Min(w.room, Len(w.wbuf))
        w1 == [w EXCEPT !.sent = @ \o SubSeq(w.wbuf, 1, n),
                        !.wbuf = SubSeq(@, n + 1, Len(@)),
                        !.room = IF @ < 0 THEN @ ELSE @ - n]
    IN IF w.broken \/ n = 0 THEN w
       ELSE IF prompt THEN BrokerReact(w1) ELSE w1
  : w \in {w0} })

BACKPRESSURE_BOUNDARY == 8 * 1024

\* upstream.start_send(f): a write buffer at the backpressure boundary is
\* flushed first and, if it is still there, the frame is handed back (to
\* callers that drop it); otherwise the codec encodes the frame into the write
\* buffer.
start_send(w0, f) ==
 Only({
    IF Len(w1.wbuf) >= BACKPRESSURE_BOUNDARY THEN w1
    ELSE [w1 EXCEPT !.wbuf = Bytes(encode(f, Buf(w1.wbuf)).buf)]
  : w1 \in {IF Len(w0.wbuf) >= BACKPRESSURE_BOUNDARY THEN poll_complete(w0) ELSE w0} })

\* upstream.poll()
upstream_poll(w0) ==
 Only({
    IF w.broken THEN [w |-> w, res |-> "Err", frame |-> NoFrame]
    ELSE IF w.inbound # <<>>
    THEN [w |-> [w EXCEPT !.inbound = Tail(@), !.yielded = Append(@, Head(w.inbound))],
          res |-> "Some", frame |-> Head(w.inbound)]
    ELSE IF w.eof THEN [w |-> w, res |-> "None", frame |-> NoFrame]
    ELSE [w |-> w, res |-> "NotReady", frame |-> NoFrame]
  : w \in {w0} })

\* AMQPTransport::send_frames
RECURSIVE send_frames(_)
send_frames(w0) ==
 Only({
    LET n == next_frame(w) IN
    IF n.some THEN send_frames(poll_complete(start_send(n.w, n.frame))) ELSE w
  : w \in {w0} })

\* AMQPTransportConnector::poll, lines 198-201
RECURSIVE connector_send(_)
connector_send(w0) ==
 Only({
    LET n == next_frame(w) IN
    IF n.some THEN connector_send(poll_complete(start_send(n.w, n.frame))) ELSE w
  : w \in {w0} })

\* Stream::poll of AMQPTransport
stream_poll(w0) ==
 Only({
    LET p == upstream_poll(w) IN
    IF p.res = "None" THEN [p EXCEPT !.res = "NotReady"] ELSE p
  : w \in {w0} })

\* AMQPTransport::handle_frames
RECURSIVE handle_frames(_)
handle_frames(w0) ==
 Only({
    LET p == stream_poll(w) IN
    CASE p.res = "Some" -> handle_frames(handle_frame(p.w, p.frame))
      [] p.res = "NotReady" -> upstream_poll(p.w).w
      [] p.res = "Err" -> [p.w EXCEPT !.faulted = TRUE]
  : w \in {w0} })

connector_poll_ReadyAfterAnyFrame(w0, h) ==
 Only({
    IF ~h THEN [w |-> w, held |-> FALSE, res |-> "Panic", eof |-> FALSE]
    ELSE LET p == upstream_poll(w) IN
      IF p.res = "Some"
      THEN [w |-> poll_complete(connector_send(handle_frame(p.w, p.frame))),
            held |-> FALSE, res |-> "Ready", eof |-> FALSE]
      ELSE [w |-> p.w, held |-> p.res # "Err",
            res |-> IF p.res = "Err" THEN "Err" ELSE "NotReady", eof |-> p.res = "None"]
  : w \in {w0} })

\* AMQPTransportConnector::poll; h: self.transport is Some.
connector_poll(w0, h) ==
 Only({
    IF ~h THEN [w |-> w, held |-> FALSE, res |-> "Panic", eof |-> FALSE]
    ELSE IF w.conn.state = "Connected"
    THEN [w |-> w, held |-> FALSE, res |-> "Ready", eof |-> FALSE]
    ELSE LET p == upstream_poll(w) IN
      CASE p.res = "NotReady" ->
             [w |-> upstream_poll(p.w).w, held |-> TRUE, res |-> "NotReady",
              eof |-> FALSE]
        [] p.res = "Err" -> [w |-> p.w, held |-> FALSE, res |-> "Err", eof |-> FALSE]
        [] p.res = "None" ->
             [w |-> p.w, held |-> TRUE, res |-> "NotReady", eof |-> TRUE]
        [] p.res = "Some" ->
             Only({ IF w1.conn.state = "Connected"
                    THEN [w |-> w1, held |-> FALSE, res |-> "Ready", eof |-> FALSE]
                    ELSE [w |-> upstream_poll(w1).w, held |-> TRUE,
                          res |-> "NotReady", eof |-> FALSE]
                  : w1 \in {poll_complete(connector_send(handle_frame(p.w, p.frame)))} })
  : w \in {w0} })

connect_begin_SendsNothing(w0) ==
 Only({
    upstream_poll(poll_complete(next_frame(conn_connect(w)).w)).w
  : w \in {w0} })

\* AMQPTransport::connect, lines 109-113.
connect_begin(w0) ==
 Only({
    LET n == next_frame(conn_connect(w))
    IN upstream_poll(poll_complete(start_send(n.w, n.frame))).w
  : w \in {w0} })

\* AMQPTransport::connect
Connect ==
  /\ phase = "new"
  /\ \E c \in {connector_poll(connect_begin(World), TRUE)} :
       /\ SetWorld(c.w)
       /\ held' = c.held
       /\ polled' = [res |-> c.res, eof |-> c.eof]
  /\ phase' = "connecting"
  /\ UNCHANGED <<prompt, published, delivered>>

\* The executor polls the connect future.
ConnectorPoll ==
  /\ phase = "connecting"
  /\ \E c \in {connector_poll(World, held)} :
       /\ SetWorld(c.w)
       /\ held' = c.held
       /\ polled' = [res |-> c.res, eof |-> c.eof]
       /\ phase' = CASE c.res = "Ready" -> "ready"
                     [] c.res = "Err" -> "failed"
                     [] c.res = "Panic" -> "panicked"
                     [] c.res = "NotReady" -> "connecting"
  /\ UNCHANGED <<prompt, published, delivered>>

RECURSIVE Total(_)
Total(bodies) == IF bodies = <<>> THEN 0 ELSE Len(Head(bodies)) + Total(Tail(bodies))

\* A publish on channel 1 queues its method and header frames and a body frame
\* for each piece of its content.
Publish(bodies) ==
  /\ phase = "ready"
  /\ conn.state = "Connected"
  /\ published < MaxPublish
  /\ published' = published + 1
  /\ conn' = [conn EXCEPT !.queue =
                 @ \o <<BasicPublish, Header(1, 60, Total(bodies), NoProperties)>>
                   \o [i \in 1..Len(bodies) |-> Body(1, bodies[i])]]
  /\ UNCHANGED <<phase, held, wbuf, room, sent, bkRead, bk, inbound, eof, broken,
                 prompt, popped, yielded, handled, delivered, polled,
                 faulted>>

\* The client calls send_frames.
SendFrames ==
  /\ phase = "ready"
  /\ \E w \in {send_frames(World)} : SetWorld(w)
  /\ UNCHANGED <<phase, held, prompt, published, delivered, polled>>

\* The client calls handle_frames.
HandleFrames ==
  /\ phase = "ready"
  /\ \E w \in {handle_frames(World)} : SetWorld(w)
  /\ UNCHANGED <<phase, held, prompt, published, delivered, polled>>

Live == phase \in {"new", "connecting", "ready"}

\* The broker, not a prompt one, gets to read what has arrived.
BrokerReply ==
  /\ Live
  /\ ~prompt
  /\ \E w \in {BrokerReact(World)} : w # World /\ SetWorld(w)
  /\ UNCHANGED <<phase, held, prompt, published, delivered, polled>>

\* The broker sends a frame of its own accord on an open connection.
BrokerDeliver(f) ==
  /\ Live
  /\ bk = "open"
  /\ delivered < MaxDeliver
  /\ delivered' = delivered + 1
  /\ inbound' = Append(inbound, f)
  /\ UNCHANGED <<phase, held, conn, wbuf, room, sent, bkRead, bk, eof, broken,
                 prompt, popped, yielded, handled, published, polled,
                 faulted>>

\* The broker closes its end.
BrokerClose ==
  /\ Live
  /\ ~eof
  /\ eof' = TRUE
  /\ bk' = "closed"
  /\ UNCHANGED <<phase, held, conn, wbuf, room, sent, bkRead, inbound, broken,
                 prompt, popped, yielded, handled, published, delivered, polled,
                 faulted>>

\* The socket breaks.
SocketFault ==
  /\ Live
  /\ ~broken
  /\ broken' = TRUE
  /\ UNCHANGED <<phase, held, conn, wbuf, room, sent, bkRead, bk, inbound, eof,
                 prompt, popped, yielded, handled, published, delivered, polled,
                 faulted>>

\* The socket's send buffer empties or fills.
SocketRoom(k) ==
  /\ Live
  /\ k # room
  /\ room' = k
  /\ UNCHANGED <<phase, held, conn, wbuf, sent, bkRead, bk, inbound, eof, broken,
                 prompt, popped, yielded, handled, published, delivered, polled,
                 faulted>>

Rooms == {-1, 0, MaxPartial}

TransportInit ==
  /\ RpcOff
  /\ CodecOff
  /\ ReactorOff
  /\ phase = "new"
  /\ held = FALSE
  /\ conn = [state |-> "Initial", step |-> "None", queue |-> <<>>]
  /\ wbuf = <<>>
  /\ room \in Rooms
  /\ sent = <<>>
  /\ bkRead = 0
  /\ bk = "listen"
  /\ inbound = <<>>
  /\ eof = FALSE
  /\ broken = FALSE
  /\ prompt \in BOOLEAN
  /\ popped = <<>>
  /\ yielded = <<>>
  /\ handled = <<>>
  /\ published = 0
  /\ delivered = 0
  /\ polled = NotPolled
  /\ faulted = FALSE

TransportNext ==
  \/ Connect /\ UNCHANGED notTransport
  \/ ConnectorPoll /\ UNCHANGED notTransport
  \/ \E bodies \in {<<SmallBody>>, <<BigBody, SmallBody>>} :
       Publish(bodies) /\ UNCHANGED notTransport
  \/ SendFrames /\ UNCHANGED notTransport
  \/ HandleFrames /\ UNCHANGED notTransport
  \/ BrokerReply /\ UNCHANGED notTransport
  \/ \E f \in {Heartbeat(0), BasicDeliver} : BrokerDeliver(f) /\ UNCHANGED notTransport
  \/ BrokerClose /\ UNCHANGED notTransport
  \/ SocketFault /\ UNCHANGED notTransport
  \/ \E k \in Rooms : SocketRoom(k) /\ UNCHANGED notTransport

TransportSpec == TransportInit /\ [][TransportNext]_vars

(***************************************************************************)
(* AsyncIoReactor: register, poll_read, poll_write, start_heartbeat, and   *)
(* the tasks they hand to the executor.                                    *)
(***************************************************************************)
MaxRegs == 2

\* Calls of poll_read and poll_write made through the handles.
MaxCalls == 1

\* Readiness waits that come to an end.
MaxRuns == 2

\* Polls of the heartbeat source.
MaxBeats == 30

poll_read_NoReturn(ok) == IF ok THEN <<"Readable">> ELSE <<"Error", "Readable">>

\* async fn poll_read: the events it sends once socket.readable() is over.
poll_read(ok) == IF ok THEN <<"Readable">> ELSE <<"Error">>

\* async fn poll_write: the events it sends once socket.writable() is over.
poll_write(ok) == IF ok THEN <<"Writable">> ELSE <<"Error">>

Inner_register_NoIncrement(slot, slots, socket) ==
  [id |-> slot, slot |-> slot,
   slots |-> [s \in (DOMAIN slots) \cup {slot + 1} |->
                IF s = slot + 1 THEN socket ELSE slots[s]]]

\* Inner::register. Slot id n is kept at index n + 1 of slots.
Inner_register(slot, slots, socket) ==
  [id |-> slot, slot |-> slot + 1,
   slots |-> [s \in (DOMAIN slots) \cup {slot + 1} |->
                IF s = slot + 1 THEN socket ELSE slots[s]]]

\* slots.get(&slot) is Some
Registered(slot) == slot + 1 \in DOMAIN rSlots

heartbeat_next_IgnoresErr(result) == IF result = "None" THEN "exited" ELSE "sleeping"

\* async fn heartbeat: while let Ok(Some(timeout)) = heartbeat.poll_timeout()
heartbeat_next(result) == IF result = "Some" THEN "sleeping" ELSE "exited"

\* A call of poll_read or poll_write begins: thread t is about to lock Inner.
\* by and n name the call: the n-th call through a handle, or the call made
\* by register for slot n.
BeginPoll(t, kind, slot, stage, by, n) ==
  rCall' = [rCall EXCEPT ![t] = [pc |-> "lock", kind |-> kind, slot |-> slot,
                                 stage |-> stage, by |-> by, n |-> n]]

\* The call of thread t returns; found: the slot was there. Inside register,
\* poll_write follows poll_read and the return of the slot id follows
\* poll_write.
EndPoll(t, found) ==
  LET c == rCall[t] IN
  /\ rCalls' = rCalls \cup {[by |-> c.by, n |-> c.n, kind |-> c.kind,
                             slot |-> c.slot, found |-> found]}
  /\ IF c.stage = "read"
     THEN /\ BeginPoll(t, "write", c.slot, "write", c.by, c.n)
          /\ UNCHANGED rReturned
     ELSE /\ rCall' = [rCall EXCEPT ![t] = IdleCall]
          /\ rReturned' = IF c.stage = "write" THEN Append(rReturned, c.slot)
                          ELSE rReturned

\* Reactor::register, line 95: Async::new fails and register returns the error.
RegisterFails ==
  /\ rCall["io"].pc = "idle"
  /\ rRegs < MaxRegs
  /\ rRegs' = rRegs + 1
  /\ UNCHANGED <<rSlot, rSlots, rLock, rCall, rCalls, rTasks, rReturned, hb>>

\* Reactor::register, lines 95-97: the socket is wrapped, Inner is locked for
\* Inner::register and unlocked, and poll_read(slot) is called.
Register ==
  /\ rCall["io"].pc = "idle"
  /\ rRegs < MaxRegs
  /\ rLock = "none"
  /\ rRegs' = rRegs + 1
  /\ \E r \in {Inner_register(rSlot, rSlots, rRegs + 1)} :
       /\ rSlot' = r.slot
       /\ rSlots' = r.slots
       /\ BeginPoll("io", "read", r.id, "read", "register", r.id)
  /\ UNCHANGED <<rLock, rCalls, rTasks, rReturned, hb>>

DirectCalls == Cardinality({c \in rCalls : c.by = "handle"})

\* The thread holding a clone of the handle calls poll_read(slot) or
\* poll_write(slot).
PollCall(kind, slot) ==
  /\ rCall["other"].pc = "idle"
  /\ DirectCalls < MaxCalls
  /\ BeginPoll("other", kind, slot, "none", "handle", DirectCalls + 1)
  /\ UNCHANGED <<rSlot, rSlots, rLock, rCalls, rTasks, rRegs, rReturned, hb>>

\* poll_read / poll_write, lines 115 and 123: self.inner.lock().slots.get(&slot).
\* The guard lives to the end of the if let: on Some the thread goes on to
\* executor.spawn holding the lock, on None the call returns.
PollLock(t) ==
  /\ rCall[t].pc = "lock"
  /\ rLock = "none"
  /\ IF Registered(rCall[t].slot)
     THEN /\ rLock' = t
          /\ rCall' = [rCall EXCEPT ![t].pc = "spawn"]
          /\ UNCHANGED <<rCalls, rReturned>>
     ELSE /\ EndPoll(t, FALSE)
          /\ UNCHANGED rLock
  /\ UNCHANGED <<rSlot, rSlots, rTasks, rRegs, hb>>

\* executor.spawn(..) takes the task; the if let ends, the lock is released
\* and the call returns.
PollSpawn(t) ==
  /\ rCall[t].pc = "spawn"
  /\ rTasks' = rTasks \cup {[by |-> rCall[t].by, n |-> rCall[t].n,
                             kind |-> rCall[t].kind, slot |-> rCall[t].slot,
                             wait |-> "pending", sent |-> <<>>]}
  /\ rLock' = "none"
  /\ EndPoll(t, TRUE)
  /\ UNCHANGED <<rSlot, rSlots, rRegs, hb>>

\* executor.spawn(..) returns Err: .expect panics; unwinding drops the guard.
PollSpawnRefused(t) ==
  /\ rCall[t].pc = "spawn"
  /\ rLock' = "none"
  /\ rCall' = [rCall EXCEPT ![t].pc = "panicked"]
  /\ UNCHANGED <<rSlot, rSlots, rCalls, rTasks, rRegs, rReturned, hb>>

\* executor.spawn(..) runs, on the calling thread and before it returns, a
\* task that calls poll_read or poll_write: the thread waits for the lock it
\* holds.
PollSpawnReenters(t) ==
  /\ rCall[t].pc = "spawn"
  /\ rLock = t
  /\ rCall' = [rCall EXCEPT ![t].pc = "deadlocked"]
  /\ UNCHANGED <<rSlot, rSlots, rLock, rCalls, rTasks, rRegs, rReturned, hb>>

\* socket.readable() / socket.writable() is over for a task, and the task
\* runs to its end.
TaskRun(task, ok) ==
  /\ task \in rTasks
  /\ task.wait = "pending"
  /\ Cardinality({x \in rTasks : x.wait # "pending"}) < MaxRuns
  /\ rTasks' = (rTasks \ {task}) \cup
                 {[task EXCEPT !.wait = IF ok THEN "ok" ELSE "failed",
                               !.sent = IF task.kind = "read" THEN poll_read(ok)
                                        ELSE poll_write(ok)]}
  /\ UNCHANGED <<rSlot, rSlots, rLock, rCall, rCalls, rRegs, rReturned, hb>>

\* start_heartbeat: the executor takes the heartbeat task.
StartHeartbeat ==
  /\ hb.pc = "none"
  /\ hb' = [hb EXCEPT !.pc = "polling"]
  /\ UNCHANGED <<rSlot, rSlots, rLock, rCall, rCalls, rTasks, rRegs, rReturned>>

\* start_heartbeat: the executor refuses the task and .expect panics.
StartHeartbeatRefused ==
  /\ hb.pc = "none"
  /\ hb' = [hb EXCEPT !.pc = "panicked"]
  /\ UNCHANGED <<rSlot, rSlots, rLock, rCall, rCalls, rTasks, rRegs, rReturned>>

\* heartbeat: heartbeat.poll_timeout() returns Ok(Some(timeout)), Ok(None) or Err.
HeartbeatPoll(result) ==
  /\ hb.pc = "polling"
  /\ hb.polls < MaxBeats
  /\ hb' = [hb EXCEPT !.pc = heartbeat_next(result), !.last = result,
                      !.polls = @ + 1]
  /\ UNCHANGED <<rSlot, rSlots, rLock, rCall, rCalls, rTasks, rRegs, rReturned>>

\* heartbeat: Timer::after(timeout) fires.
HeartbeatTimer ==
  /\ hb.pc = "sleeping"
  /\ hb' = [hb EXCEPT !.pc = "polling", !.sleeps = @ + 1]
  /\ UNCHANGED <<rSlot, rSlots, rLock, rCall, rCalls, rTasks, rRegs, rReturned>>

ReactorInit ==
  /\ RpcOff
  /\ CodecOff
  /\ TransportOff
  /\ ReactorOff

ReactorNext ==
  \/ RegisterFails /\ UNCHANGED notReactor
  \/ Register /\ UNCHANGED notReactor
  \/ \E kind \in {"read", "write"} : \E slot \in {0, MaxRegs} :
       PollCall(kind, slot) /\ UNCHANGED notReactor
  \/ \E t \in Callers : PollLock(t) /\ UNCHANGED notReactor
  \/ \E t \in Callers : PollSpawn(t) /\ UNCHANGED notReactor
  \/ \E t \in Callers : PollSpawnRefused(t) /\ UNCHANGED notReactor
  \/ \E t \in Callers : PollSpawnReenters(t) /\ UNCHANGED notReactor
  \/ \E task \in rTasks : \E ok \in BOOLEAN : TaskRun(task, ok) /\ UNCHANGED notReactor

ReactorSpec == ReactorInit /\ [][ReactorNext]_vars

\* The heartbeat task on its own: it shares nothing with the slots.
HeartbeatInit ==
  /\ RpcOff
  /\ CodecOff
  /\ TransportOff
  /\ ReactorOff

HeartbeatNext ==
  \/ StartHeartbeat /\ UNCHANGED notReactor
  \/ StartHeartbeatRefused /\ UNCHANGED notReactor
  \/ \E result \in {"Some", "None", "Err"} :
       HeartbeatPoll(result) /\ UNCHANGED notReactor
  \/ HeartbeatTimer /\ UNCHANGED notReactor

HeartbeatSpec == HeartbeatInit /\ [][HeartbeatNext]_vars

Init == RpcInit /\ CodecOff /\ TransportOff /\ ReactorOff

Next ==
  \/ \E command \in InternalCommand(handed + 1) :
       SendEnqueue(command) /\ UNCHANGED notRpc
  \/ \E id \in sender : SendWake(id) /\ UNCHANGED notRpc
  \/ PollBegin /\ UNCHANGED notRpc
  \/ PollStep /\ UNCHANGED notRpc
  \/ PollEnd /\ UNCHANGED notRpc
  \/ \E t \in tasks : \E resOk \in BOOLEAN : TaskFinish(t, resOk) /\ UNCHANGED notRpc
  \/ \E t \in tasks : TaskWake(t) /\ UNCHANGED notRpc
  \/ LoopExit /\ UNCHANGED notRpc

Spec == Init /\ [][Next]_vars

(***************************************************************************)
(* Claims about the internal RPC queue.                                    *)
(***************************************************************************)

\* The resolver of command id is still owned by something that can fulfil it.
Held(id) == id \in QueueIds \/ id \in TaskIds

\* C1: the resolver carried by every BasicAck, BasicNack or BasicReject command
\* handed to the handle is fulfilled exactly once: never twice, and never given
\* up (dropped with its command or its future) without having been fulfilled.
C1_ResolverFulfilledExactlyOnce ==
  \A id \in resolvers : swears[id] <= 1 /\ (~Held(id) => swears[id] = 1)

\* C2, as stated: whenever poll has returned, with Ok or with an error, none of
\* the commands that were in the queue when it began is still in the queue.
C2_DrainedWhateverOutcome ==
  (pollPc = "idle" /\ pollResult # "none") => pollSeen = {}

\* C2, amended: when poll has returned Ok, none of the commands that were in the
\* queue when it began is still in the queue; when it has returned an error, the
\* commands that were behind the failing one are still at the head of the queue.
C2_DrainedUnlessError ==
  pollPc = "idle" =>
    /\ pollResult = "ok" => pollSeen = {}
    /\ pollResult = "err" =>
         /\ Cardinality(pollSeen) <= Len(rpc)
         /\ pollSeen = {rpc[i].id : i \in 1..Cardinality(pollSeen)}

\* A poll that found two commands queued has run them and returned Ok.
C2_Witness ==
  pollPc = "idle" /\ pollResult = "ok" /\ pollTook >= 2 /\ Len(ran) >= 2

\* Nothing is about to wake the loop: it waits, no wake is pending and no send()
\* is between its enqueue and its wake.
Quiescent == pollPc = "idle" /\ ~wake /\ sender = {} /\ Waking = {}

\* Every queued command has had a wake after its enqueue, or its sender is about
\* to issue one.
NoLostWake ==
  \A id \in QueueIds : id \in wokenAfter \/ id \in sender
                       \/ \E t \in Waking : t.id = id

\* One wake per completed send.
OncePerSend == wakes = handed - Cardinality(sender) - Cardinality(Waking)

\* C3, as stated: send enqueues before it wakes and wakes once per send, no
\* queued command lacks a wake issued after its enqueue, and every enqueued
\* command is run by the polls that follow the wakes: once nothing is left to
\* wake the loop, no command is left in the queue.
C3_EveryCommandRun ==
  NoLostWake /\ OncePerSend /\ (Quiescent => rpc = <<>>)

\* C3, amended: as C3, but a command may be left in the queue, with no wake to
\* come, after a poll that returned early with the error of a run().
C3_NoLostWakeup ==
  NoLostWake /\ OncePerSend /\ ((Quiescent /\ pollResult # "err") => rpc = <<>>)

\* Two sends, each followed by its wake, and the polls have run both commands.
C3_Witness ==
  Quiescent /\ pollResult = "ok" /\ wakes = 2 /\ Len(ran) = 2 /\ rpc = <<>>

\* No two registered futures act on the same channel at the same time.
NoTwoTasksOnOneChannel ==
  \A t1 \in tasks, t2 \in tasks :
    (t1 # t2 /\ t1.st = "running" /\ t2.st = "running" /\ t1.touches /\ t2.touches)
      => t1.ch # t2.ch

InternalFutures == {t \in tasks : ~t.resolver /\ t.st = "running"}

SetConnectionError(id) == [id |-> id, kind |-> "SetConnectionError", ch |-> 0]

\* What the completion of an internal future does: with an error, one
\* SetConnectionError is sent (enqueued; whenQueued says when) and the wake of
\* that send is still to come; with success nothing is sent.
FutureOutcome(whenQueued) ==
  \A t \in InternalFutures :
    /\ TaskFinish(t, FALSE) =>
         /\ handed' = handed + 1
         /\ whenQueued => rpc' = Append(rpc, SetConnectionError(handed + 1))
         /\ Len(rpc') <= Len(rpc) + 1
         /\ \E w \in tasks' : w.st = "waking" /\ w.id = handed + 1
    /\ TaskFinish(t, TRUE) =>
         /\ rpc' = rpc
         /\ handed' = handed
         /\ tasks' = tasks \ {t}

\* The send of a task ends with the wake, and running SetConnectionError puts
\* the connection in Error.
WokenThenError ==
  /\ \A w \in Waking : w \notin tasks' => wake' /\ wakes' = wakes + 1
  /\ (ran' # ran /\ rpc # <<>> /\ Head(rpc).kind = "SetConnectionError")
       => connState' = "Error"

\* C19, as stated: whenever the future of a CancelConsumer, CloseChannel,
\* CloseConnection or SendConnectionCloseOk command completes with an error,
\* exactly one SetConnectionError is enqueued and the handle is woken, and the
\* drain that runs the command moves the connection to Error; a future that
\* completes successfully enqueues nothing.
C19_ErrorAlwaysEnqueued == [][FutureOutcome(TRUE) /\ WokenThenError]_vars

\* C19, amended: as C19 while the loop holds the receiving end of the queue;
\* once the loop has exited, the SetConnectionError is discarded by send() and
\* the handle is woken all the same.
C19_ErrorEnqueuedWhileLoopLives ==
  [][FutureOutcome(receiverAlive) /\ (~receiverAlive => rpc' = rpc) /\ WokenThenError]_vars

\* The future of the first command has failed: SetConnectionError is queued
\* and the wake of its send is still to come.
C19_Witness ==
  /\ receiverAlive
  /\ \E w \in Waking : rpc # <<>> /\ rpc[Len(rpc)] = SetConnectionError(w.id)
  /\ ran = <<1>>

\* C20: commands are run at most once and in the order of their enqueueing,
\* and while the loop lives a command not yet run is in the queue, in order;
\* when run() returns an error, poll returns it at once, and otherwise goes on.
C20_RunOnceInOrder ==
  /\ [](/\ ran = [i \in 1..Len(ran) |-> i]
        /\ receiverAlive =>
             /\ Len(ran) + Len(rpc) = handed
             /\ \A i \in 1..Len(rpc) : rpc[i].id = Len(ran) + i)
  /\ [][ran' # ran =>
          /\ ran' = Append(ran, Head(rpc).id)
          /\ rpc' = Tail(rpc)
          /\ \E spawnOk \in BOOLEAN, chanOk \in BOOLEAN :
               \E r \in {run(Head(rpc), spawnOk, chanOk)} :
                 /\ tasks' = r.tasks
                 /\ channels' = r.channels
                 /\ connState' = r.connState
                 /\ ~r.ok => pollPc' = "idle" /\ pollResult' = "err"
                 /\ r.ok => pollPc' = "polling"]_vars

\* The run() of the first of two queued commands failed: poll has returned the
\* error and the second command is still queued.
C20_Witness ==
  /\ pollPc = "idle"
  /\ pollResult = "err"
  /\ pollTook = 2
  /\ ran = <<1>>
  /\ Len(rpc) = 1
  /\ rpc[1].id = 2

\* The command looks its channel up with channels.get(..) and the channel is
\* not in the table.
LookupFails(command) ==
  /\ command.kind \in ResolverKinds \cup ChannelFutureKinds \cup Channel0Kinds
  /\ Target(command) \notin channels

\* RemoveChannel for a channel that is not in the table.
RemovesAbsent(command) ==
  command.kind = "RemoveChannel" /\ command.ch \notin channels

\* poll has run the head of the queue and nothing but the queue has changed.
RanWithoutEffect ==
  /\ rpc' = Tail(rpc)
  /\ tasks' = tasks
  /\ channels' = channels
  /\ connState' = connState
  /\ swears' = swears

\* run() returned Ok: poll goes on to the next command.
PollGoesOn == pollPc' = "polling" /\ pollResult' = "none"

\* C22, as stated: running a command addressed to a channel that is not in the
\* table (channel 0 for CloseConnection and SendConnectionCloseOk) changes no
\* channel or connection state, registers no task, returns Ok, and poll goes
\* on to the commands behind it.
C22_AbsentChannelIsNoOp ==
  [][(ran' # ran /\ rpc # <<>> /\ (LookupFails(Head(rpc)) \/ RemovesAbsent(Head(rpc))))
       => RanWithoutEffect /\ PollGoesOn]_vars

\* C22, amended: as C22 for the commands that look their channel up
\* (BasicAck, BasicNack, BasicReject, CancelConsumer, CloseChannel,
\* CloseConnection, SendConnectionCloseOk); a RemoveChannel for an absent
\* channel changes nothing and registers no task either, but run() returns
\* what Channels::remove returns, and on an error poll returns it at once.
C22_AbsentLookupIsNoOp ==
  [][(ran' # ran /\ rpc # <<>>) =>
       /\ LookupFails(Head(rpc)) => RanWithoutEffect /\ PollGoesOn
       /\ RemovesAbsent(Head(rpc)) =>
            /\ RanWithoutEffect
            /\ PollGoesOn \/ (pollPc' = "idle" /\ pollResult' = "err")]_vars

\* With an empty channel table, one poll has run two commands that carry a
\* resolver and returned Ok, and no task was registered.
C22_Witness ==
  /\ channels = {}
  /\ resolvers = {1, 2}
  /\ ran = <<1, 2>>
  /\ pollTook = 2
  /\ pollPc = "idle"
  /\ pollResult = "ok"
  /\ tasks = {}
  /\ connState = "Connected"

(***************************************************************************)
(* Claims about AMQPCodec.                                                 *)
(***************************************************************************)
\* The bytes of the encoded frame.
Encoded == Bytes(cBuf)

\* decode has just been called on the first cFed bytes of the encoded frame.
DecodedPrefix == cPc = "decoded" /\ rBefore = SubSeq(Encoded, 1, cFed)

\* C7: decode, called on a proper prefix of an encoded frame (the empty one
\* included), returns Ok(None) and leaves the buffer as it was; called once the
\* last byte has arrived, after any number of such calls, it returns the frame
\* that decoding the whole encoding at once returns, and leaves what that leaves.
C7_DecodeIncremental ==
  DecodedPrefix =>
    IF cFed < cBuf.len
    THEN cDec.res = "None" /\ rBuf = rBefore
    ELSE LET whole == decode(Encoded) IN
           /\ cDec.res = "Some"
           /\ cDec.res = whole.res
           /\ cDec.frame = whole.frame
           /\ rBuf = whole.buf

\* A frame decoded after two calls on proper prefixes of it returned None.
C7_Witness ==
  /\ DecodedPrefix
  /\ cFed = cBuf.len
  /\ cDec.res = "Some"
  /\ cDec.nones = 2
  /\ cFrame.type = "Header"

\* C8: decoding the bytes encode produced for a frame returns that frame, the
\* properties of a Header frame included, and consumes exactly those bytes.
C8_RoundTrip ==
  (DecodedPrefix /\ cFed = cBuf.len) =>
    /\ cDec.res = "Some"
    /\ cDec.frame = cFrame
    /\ rBuf = <<>>

\* C9: encode of a frame the generator can write ends Ok, whatever the length
\* of the buffer it is handed; every BufferTooSmall(sz) was answered by growing
\* the buffer to sz bytes at least before the generator ran again; and the
\* buffer is left holding the bytes of the whole frame, as many as the
\* generator reported.
C9_EncodeNeverTruncates ==
  cPc \in {"encoded", "failed"} =>
    /\ cEnc.res = (IF GenFails(cFrame) THEN "InvalidData" ELSE "Ok")
    /\ \A i \in 1..Len(cEnc.grown) :
         cEnc.grown[i].after >= cEnc.grown[i].sz
    /\ cEnc.res = "Ok" =>
         /\ cBuf.len = cEnc.sz
         /\ Encoded = Flatten(GenWrites(cFrame))
         /\ Encoded[cBuf.len] = (IF cFrame.type = "ProtocolHeader" THEN 1 ELSE FRAME_END)

\* A frame longer than the initial 8192 bytes, encoded after the buffer grew.
C9_Witness ==
  /\ cPc = "encoded"
  /\ cEnc.res = "Ok"
  /\ Len(cEnc.grown) >= 1
  /\ cBuf.len > INITIAL_LEN
  /\ cBuf.len = BigFrameLen

\* C21: encode terminates. The step of encode ends with Ok or InvalidData; for
\* every BufferTooSmall(sz) on the way, sz is above the length the buffer had
\* when encode was called, so sz - length does not underflow and is positive,
\* and the buffer grew by exactly that much; and there were no more retries
\* than the generator has writes.
C21_EncodeTerminates ==
  [][(cPc = "start" /\ cPc' # "start") =>
       /\ cEnc'.res \in {"Ok", "InvalidData"}
       /\ Len(cEnc'.grown) <= Len(GenWrites(cFrame))
       /\ \A i \in 1..Len(cEnc'.grown) :
            /\ cEnc'.grown[i].sz > cBuf.len
            /\ cEnc'.grown[i].sz > cEnc'.grown[i].before
            /\ cEnc'.grown[i].after = cEnc'.grown[i].before + (cEnc'.grown[i].sz - cBuf.len)
            /\ cEnc'.grown[i].after > cEnc'.grown[i].before]_vars

\* A frame encoded after two BufferTooSmall retries, the second one asking for
\* more than the first growth gave.
C21_Witness ==
  /\ cPc = "encoded"
  /\ Len(cEnc.grown) = 2
  /\ cEnc.grown[2].sz > cEnc.grown[1].after
  /\ cEnc.grown[1].before > INITIAL_LEN

(***************************************************************************)
(* Claims about AMQPTransport.                                             *)
(***************************************************************************)
\* The bytes of the frames fs, one frame after the other.
RECURSIVE Serialized(_)
Serialized(fs) ==
  IF fs = <<>> THEN <<>> ELSE Flatten(GenWrites(Head(fs))) \o Serialized(Tail(fs))

\* C5: the frames popped from the send queue reach the byte stream whole, in
\* queue order and once each: the bytes the socket has accepted, followed by
\* those still in the write buffer, are the bytes of the popped frames.
C5_FramesReachTheWire == sent \o wbuf = Serialized(popped)

\* C6: the frames upstream.poll has yielded are the frames handle_frame was
\* called with, in the same order.
C6_EveryFrameHandled == handled = yielded

HeaderBytes == Head(gen_protocol_header)

\* C10: connect leaves the connection in state Connecting, and from then on
\* the protocol header is the first frame popped from the send queue, the
\* bytes on the wire begin with the header's bytes (or are the first of
\* them), and an inbound frame is handled or a second frame popped only once
\* all the header's bytes are on the wire.
C10_HeaderFirst ==
  /\ [](phase \notin {"off", "new"} =>
          /\ conn.state # "Initial"
          /\ popped # <<>> /\ Head(popped) = ProtocolHeader
          /\ IsPrefix(sent, HeaderBytes) \/ IsPrefix(HeaderBytes, sent)
          /\ (handled # <<>> \/ Len(popped) > 1) => IsPrefix(HeaderBytes, sent))
  /\ [][phase = "new" /\ phase' # "new" =>
          /\ conn'.state = "Connecting"
          /\ popped' = <<ProtocolHeader>>
          /\ sent' \o wbuf' = HeaderBytes
          /\ handled' = <<>>]_vars

\* The handshake went on after a connect whose header reached the wire whole.
C10_Witness ==
  /\ phase = "connecting"
  /\ IsPrefix(HeaderBytes, sent)
  /\ Len(sent) > Len(HeaderBytes)
  /\ handled # <<>>

\* C11: the connect future has handed the transport out exactly when the
\* connection is Connected, the poll that handed it out returned Ready, and a
\* poll that returned NotReady left the transport in the connector.
C11_ReadyIffConnected ==
  /\ phase = "ready" <=> conn.state = "Connected"
  /\ phase = "ready" <=> polled.res = "Ready"
  /\ polled.res = "NotReady" => held /\ phase = "connecting"

\* The handshake ran to its end and the future handed the transport out.
C11_Witness ==
  /\ phase = "ready"
  /\ polled.res = "Ready"
  /\ conn.state = "Connected"
  /\ handled = <<Start, Tune, OpenOk>>

\* C12: a poll of the connector to which the upstream yielded Ready(None)
\* returns an error, and the connect future has failed.
C12_EofIsFatal == polled.eof => polled.res = "Err" /\ phase = "failed"

\* C13: no poll of the connector unwraps an absent transport, and a connector
\* that has lost its transport to an error of the upstream has failed with
\* that error.
C13_NoPanic ==
  /\ phase # "panicked"
  /\ (phase = "connecting" => held)

\* C14: once handle_frames has received an error from the upstream, the
\* connection is in state Error.
C14_FaultMovesToError == faulted => conn.state = "Error"

\* C15: poll_read and poll_write are one-shot. A call on a registered slot
\* that has returned has handed the executor exactly one task; the task sends
\* nothing while its readiness wait lasts, then exactly one event: Readable
\* (Writable for poll_write) when the wait succeeded, Error when it failed. A
\* call on a slot that is not registered hands over no task, so no event.
TasksOf(c) == {task \in rTasks : task.by = c.by /\ task.n = c.n /\ task.kind = c.kind}

ReadyEvent(kind) == IF kind = "read" THEN "Readable" ELSE "Writable"

C15_OneShot ==
  /\ \A c \in rCalls :
       /\ c.found => Cardinality(TasksOf(c)) = 1
       /\ ~c.found => TasksOf(c) = {}
  /\ \A task \in rTasks :
       /\ Registered(task.slot)
       /\ task.wait = "pending" => task.sent = <<>>
       /\ task.wait = "ok" => task.sent = <<ReadyEvent(task.kind)>>
       /\ task.wait = "failed" => task.sent = <<"Error">>

C15_Witness ==
  /\ \E task \in rTasks :
       task.by = "handle" /\ task.kind = "write" /\ task.sent = <<"Writable">>
  /\ \E task \in rTasks :
       task.by = "register" /\ task.kind = "read" /\ task.sent = <<"Error">>

\* C16: the reactor is reentrant-safe: no thread waits for the slot-table lock
\* while holding it, and the lock is not held where control leaves the
\* reactor for the executor.
C16_ReentrantSafe ==
  \A t \in Callers :
    /\ rCall[t].pc # "deadlocked"
    /\ rCall[t].pc = "spawn" => rLock # t

\* C17: register returns a slot id no earlier register returned, stores the
\* socket under it leaving every earlier slot as it was, and has armed exactly
\* one read poll and one write poll for the slot when it returns.
ArmedBy(slot, kind) ==
  {task \in rTasks : task.by = "register" /\ task.n = slot /\ task.kind = kind}

C17_RegisterFresh ==
  /\ [](/\ \A i, j \in DOMAIN rReturned : i # j => rReturned[i] # rReturned[j]
        /\ \A i \in DOMAIN rReturned :
             /\ Registered(rReturned[i])
             /\ Cardinality(ArmedBy(rReturned[i], "read")) = 1
             /\ Cardinality(ArmedBy(rReturned[i], "write")) = 1
             /\ \A task \in ArmedBy(rReturned[i], "read")
                          \cup ArmedBy(rReturned[i], "write") :
                  task.slot = rReturned[i])
  /\ [][\A s \in DOMAIN rSlots : s \in DOMAIN rSlots' /\ rSlots'[s] = rSlots[s]]_vars

C17_Witness ==
  /\ rReturned = <<0, 1>>
  /\ rSlots = <<1, 2>>
  /\ rCall["io"].pc = "idle"

\* C18: the heartbeat task sleeps after every poll_timeout that returned a
\* timeout and polls again after the sleep; it exits on the first poll_timeout
\* that returned no timeout or an error, and never polls again.
C18_HeartbeatLoop ==
  /\ [](/\ hb.pc = "sleeping" => hb.last = "Some" /\ hb.sleeps + 1 = hb.polls
        /\ hb.pc = "polling" => hb.last \in {"none", "Some"} /\ hb.sleeps = hb.polls
        /\ hb.pc = "exited" => hb.last \in {"None", "Err"} /\ hb.sleeps + 1 = hb.polls
        /\ hb.last \in {"None", "Err"} => hb.pc = "exited")
  /\ [][/\ hb.pc = "exited" => hb' = hb
        /\ hb.pc = "sleeping" => hb'.pc = "polling" /\ hb'.polls = hb.polls]_vars

C18_Witness == hb.pc = "exited" /\ hb.last = "Err" /\ hb.polls = 3 /\ hb.sleeps = 2

====
